---- MODULE Spec2Model ----
(***************************************************************************)
(* chaospy/distributions/collection/sample_dist.py                         *)
(*                                                                         *)
(* A distribution built from samples with a Gaussian kernel density        *)
(* estimator.  Floating point numbers are modelled in fixed point:         *)
(*   positions (samples, bounds, query points)  integers                   *)
(*   bandwidth (kernel standard deviation)      units of 1/50              *)
(*   standardised distances z                   units of 1/4               *)
(*   probabilities and densities                units of 1/10000           *)
(* A quotient of two floats is kept as an exact fraction <<num, den>>,     *)
(* with den = 0 for the IEEE values nan (0/0), inf and -inf.               *)
(***************************************************************************)
EXTENDS Integers, Sequences, FiniteSets, TLC

VARIABLES insts, args, ret, mode

vars == <<insts, args, ret, mode>>

\* Largest sample value of the model; samples are drawn from 0..MaxVal.
MaxVal == 2
\* Longest sample sequence of the model.
MaxLen == 3

\* The lower limit of every kernel integral (integrate_box_1d(0, .)).
Anchor == 0

\* The two instance names a caller may bind.
Insts == {1, 2}

\* Python's None for an omitted argument; a supplied value v is <<v>>.
None == <<>>

Some(v) == <<v>>

---------------------------------------------------------------------------
(* Input domains *)

SampleVals == 0..MaxVal

RECURSIVE SeqsUpTo(_, _)
SeqsUpTo(S, k) ==
  IF k = 0 THEN {<<>>}
  ELSE LET shorter == SeqsUpTo(S, k - 1)
       IN  shorter \cup {Append(s, v) : s \in {t \in shorter : Len(t) = k - 1}, v \in S}

Ascending(s) == \A j \in 1..(Len(s) - 1) : s[j] <= s[j + 1]

Descending(s) == \A j \in 1..(Len(s) - 1) : s[j] >= s[j + 1]

\* The sample sequences of the model: every ascending or descending
\* sequence, the empty one included.
Samples == {s \in SeqsUpTo(SampleVals, MaxLen) : Ascending(s) \/ Descending(s)}

\* Explicit thresholds: inside, at the ends of and far above the sample range.
BndVals == 0..(MaxVal + 2)

OptBnds == {None} \cup {Some(v) : v \in BndVals}

\* Sample sets and thresholds used when two instances are bound together:
\* two samples in order, lo omitted or 0, up omitted or far above the samples.
PairSamples == {s \in Samples : Len(s) = 2 /\ s[1] <= s[2]}

PairLos == {None, Some(0)}

PairUps == {None, Some(MaxVal + 2), Some(MaxVal + 3)}

\* Query points.
XVals == (-1)..(MaxVal + 2)

\* Query arrays of shape (1, k): one row holding the grid a, a+1, .., b.
Grid(a, b) == << [j \in 1..(b - a + 1) |-> a + j - 1] >>

XArrays == {Grid(a, b) : a \in XVals, b \in XVals} \ {Grid(0, -1)}

---------------------------------------------------------------------------
(* Floating point helpers *)

Abs(a) == IF a < 0 THEN -a ELSE a

Sign(a) == IF a > 0 THEN 1 ELSE IF a < 0 THEN -1 ELSE 0

RECURSIVE Gcd(_, _)
Gcd(a, b) == IF b = 0 THEN a ELSE Gcd(b, a % b)

\* a / b on numpy floats: no exception; 0/0 is nan, x/0 is +-inf.
FDiv(a, b) ==
  IF b = 0 THEN <<Sign(a), 0>>
  ELSE LET g == Gcd(Abs(a), Abs(b))
       IN  <<(Sign(b) * a) \div g, Abs(b) \div g>>

NaN == <<0, 0>>

IsNaN(v) == v = NaN

\* u <= v on floats; every comparison with nan is false.
FLe(u, v) ==
  /\ ~IsNaN(u)
  /\ ~IsNaN(v)
  /\ IF u[2] = 0 /\ v[2] = 0 THEN u[1] <= v[1]
     ELSE u[1] * v[2] <= v[1] * u[2]

FZero == <<0, 1>>

FOne == <<1, 1>>

RECURSIVE SumSeq(_)
SumSeq(s) == IF s = <<>> THEN 0 ELSE s[1] + SumSeq(Tail(s))

Range(s) == {s[j] : j \in DOMAIN s}

SeqMin(s) == CHOOSE m \in Range(s) : \A v \in Range(s) : m <= v

SeqMax(s) == CHOOSE m \in Range(s) : \A v \in Range(s) : v <= m

RECURSIVE SqrtSearch(_, _, _)
SqrtSearch(a, lo, hi) ==
  IF lo >= hi THEN lo
  ELSE LET mid == (lo + hi + 1) \div 2
       IN  IF mid * mid <= a THEN SqrtSearch(a, mid, hi)
           ELSE SqrtSearch(a, lo, mid - 1)

\* numpy.sqrt in fixed point: the largest r with r * r <= a.
ISqrt(a) == SqrtSearch(a, 0, a)

---------------------------------------------------------------------------
(* scipy.stats.gaussian_kde, as sample_dist uses it *)

\* The standard normal cumulative at z = 0, 1/4, .., 4, in 1/10000;
\* it is 1 to working precision from z = 4 on.
NdtrTable ==
  << 5000, 5987, 6915, 7734, 8413, 8944, 9332, 9599, 9772,
     9878, 9938, 9970, 9987, 9994, 9998, 9999, 10000 >>

\* The standard normal density at z = 0, 1/4, .., 4, in 1/10000.
NormPdfTable ==
  << 3989, 3867, 3521, 3011, 2420, 1826, 1295, 863, 540,
     317, 175, 91, 44, 20, 9, 4, 1 >>

TableIdx(k) == IF k >= Len(NdtrTable) THEN Len(NdtrTable) ELSE k + 1

ndtr(k) ==
  IF k >= 0 THEN NdtrTable[TableIdx(k)]
  ELSE NdtrTable[Len(NdtrTable)] - NdtrTable[TableIdx(-k)]

norm_pdf(k) ==
  IF Abs(k) >= Len(NormPdfTable) THEN 0 ELSE NormPdfTable[Abs(k) + 1]

\* Scott's rule n^(-1/(d+4)) with d = 1, in 1/50: the largest f with
\* (f/50)^5 * n <= 1.
scotts_factor(n) ==
  CHOOSE f \in 1..50 :
    /\ f * f * f * f * f * n <= 312500000
    /\ (f + 1) * (f + 1) * (f + 1) * (f + 1) * (f + 1) * n > 312500000

\* n * (n - 1) * the sample variance (ddof = 1): zero exactly when every
\* sample is the same.
ScaledVariance(dataset) ==
  LET n == Len(dataset)
  IN  n * SumSeq([j \in 1..n |-> dataset[j] * dataset[j]])
        - SumSeq(dataset) * SumSeq(dataset)

\* gaussian_kde(samples, bw_method="scott"): the fitted kernel, or the
\* exception the constructor raises.
gaussian_kde(dataset) ==
  LET n == Len(dataset)
  IN  IF ~(n > 1)
      THEN [exc |-> "ValueError"]
      ELSE IF ScaledVariance(dataset) = 0
      THEN [exc |-> "LinAlgError"]
      ELSE LET f == scotts_factor(n)
           IN  [exc |-> "none",
                dataset |-> dataset,
                n |-> n,
                factor |-> f,
                stdev |-> ISqrt((ScaledVariance(dataset) * f * f) \div (n * (n - 1)))]

\* (d / stdev) in quarters, rounded towards zero.
Normalized(kernel, d) == Sign(d) * ((Abs(d) * 50 * 4) \div kernel.stdev)

\* kernel.integrate_box_1d(low, high): the mean over the samples of
\* ndtr((high - x_i) / stdev) - ndtr((low - x_i) / stdev).
integrate_box_1d(kernel, low, high) ==
  SumSeq([j \in 1..kernel.n |->
            ndtr(Normalized(kernel, high - kernel.dataset[j]))
              - ndtr(Normalized(kernel, low - kernel.dataset[j]))])
    \div kernel.n

\* kernel(x) at one point: the mean of the Gaussians centred at the samples.
evaluate(kernel, x) ==
  (SumSeq([j \in 1..kernel.n |->
             norm_pdf(Normalized(kernel, x - kernel.dataset[j]))]) * 50)
    \div (kernel.n * kernel.stdev)

---------------------------------------------------------------------------
(* class sample_dist(Dist) *)

\* sample_dist.__init__ integrating up to lo for both cached masses.
sample_dist_same_mass(samples, lo, up) ==
  LET kernel == gaussian_kde(samples)
  IN  IF kernel.exc # "none"
      THEN [kind |-> "raised", exc |-> kernel.exc]
      ELSE [kind |-> "sample_dist",
            samples |-> samples,
            kernel |-> kernel,
            flo |-> integrate_box_1d(kernel, Anchor, lo),
            fup |-> integrate_box_1d(kernel, Anchor, lo),
            prm |-> [lo |-> lo, up |-> up]]

\* sample_dist.__init__(samples, lo, up): the new object, or the exception
\* gaussian_kde raised.  Dist.__init__(lo=lo, up=up) records the parameters.
sample_dist(samples, lo, up) ==
  LET kernel == gaussian_kde(samples)
  IN  IF kernel.exc # "none"
      THEN [kind |-> "raised", exc |-> kernel.exc]
      ELSE [kind |-> "sample_dist",
            samples |-> samples,
            kernel |-> kernel,
            flo |-> integrate_box_1d(kernel, Anchor, lo),
            fup |-> integrate_box_1d(kernel, Anchor, up),
            prm |-> [lo |-> lo, up |-> up]]

\* Rescale dividing by cdfUpper alone.
RescaleByUpperOnly(self, raw) == FDiv(raw - self.flo, self.fup)

\* Rescale with the two cached masses exchanged in the divisor.
RescaleSwapped(self, raw) == FDiv(raw - self.flo, self.flo - self.fup)

\* Rescale clipping its result to [0, 1].
RescaleClamped(self, raw) ==
  LET v == FDiv(raw - self.flo, self.fup - self.flo)
  IN  IF IsNaN(v) THEN v
      ELSE IF FLe(v, FZero) THEN FZero
      ELSE IF FLe(FOne, v) THEN FOne
      ELSE v

\* The rescaling of one raw cumulative value.
Rescale(self, raw) == FDiv(raw - self.flo, self.fup - self.flo)

\* sample_dist._cdf(x, lo, up): x is an array of rows of points.
_cdf(self, x, lo, up) ==
  [i \in 1..Len(x) |->
     [j \in 1..Len(x[i]) |->
        Rescale(self, integrate_box_1d(self.kernel, Anchor, x[i][j]))]]

\* _pdf renormalised by the truncated mass.
_pdf_truncated(self, x, lo, up) ==
  [j \in 1..Len(x[1]) |->
     IF self.fup = self.flo THEN 0
     ELSE (evaluate(self.kernel, x[1][j]) * 10000) \div (self.fup - self.flo)]

\* sample_dist._pdf(x, lo, up): gaussian_kde takes the rows of x as the
\* dimensions and returns one density per point.
_pdf(self, x, lo, up) ==
  [j \in 1..Len(x[1]) |-> evaluate(self.kernel, x[1][j])]

\* _bnd returning its arguments in the other order.
_bnd_swapped(self, x, lo, up) == <<up, lo>>

\* sample_dist._bnd(x, lo, up)
_bnd(self, x, lo, up) == <<lo, up>>

---------------------------------------------------------------------------
(* def SampleDist(samples, lo=None, up=None) *)

Uniform(lower, upper) ==
  [kind |-> "Uniform", prm |-> [lower |-> lower, upper |-> upper]]

Raised(exc) == [kind |-> "raised", exc |-> exc]

\* "if not lo" in place of "if lo is None".
DefaultLoFalsy(samples, lo) ==
  IF lo = None \/ lo = Some(0) THEN SeqMin(samples) ELSE lo[1]

\* if lo is None: lo = samples.min()
DefaultLo(samples, lo) == IF lo = None THEN SeqMin(samples) ELSE lo[1]

\* if up is None: up = samples.max()
DefaultUp(samples, up) == IF up = None THEN SeqMax(samples) ELSE up[1]

\* SampleDist without its except clause.
TryConstructNoCatch(samples, lo, up) == sample_dist(samples, lo, up)

\* try: dist = sample_dist(..)  except numpy.linalg.LinAlgError: Uniform
TryConstruct(samples, lo, up) ==
  LET dist == sample_dist(samples, lo, up)
  IN  IF dist.kind = "raised" /\ dist.exc = "LinAlgError"
      THEN Uniform("-inf", "inf")
      ELSE dist

\* What a call of SampleDist leaves the caller with: the distribution it
\* returns or the exception it lets through.  min() and max() of an empty
\* array raise ValueError.
SampleDistCall(samples, lo, up) ==
  IF samples = <<>> /\ (lo = None \/ up = None)
  THEN Raised("ValueError")
  ELSE TryConstruct(samples, DefaultLo(samples, lo), DefaultUp(samples, up))

---------------------------------------------------------------------------
(* State *)

Unbound == [kind |-> "unbound"]

NoRet == [op |-> "none"]

IsKde(i) == insts[i].kind = "sample_dist"

Idle == ret.op = "none"

\* The lo/up a bounds query may be handed: the recorded parameters (what
\* the framework passes) or a pair of the caller's own.
BndArgs(self) ==
  {<<self.prm.lo, self.prm.up>>} \cup {<<v, v + 1>> : v \in {Anchor, MaxVal}}

TypeOK ==
  /\ mode \in {"single", "pair"}
  /\ \A i \in Insts : insts[i].kind \in {"unbound", "sample_dist", "Uniform", "raised"}
  /\ ret.op \in {"none", "_cdf", "_pdf", "_bnd", "inv"}

Init ==
  /\ mode = "single"
  /\ insts = [i \in Insts |-> Unbound]
  /\ args = [i \in Insts |-> <<>>]
  /\ ret = NoRet

InitPair ==
  /\ mode = "pair"
  /\ insts = [i \in Insts |-> Unbound]
  /\ args = [i \in Insts |-> <<>>]
  /\ ret = NoRet

\* dist_i = SampleDist(samples, lo, up)
SampleDist(i) ==
  /\ Idle
  /\ insts[i].kind = "unbound"
  /\ mode = "pair" \/ i = 1
  /\ \E samples \in IF mode = "pair" THEN PairSamples ELSE Samples,
        lo \in IF mode = "pair" THEN PairLos ELSE OptBnds,
        up \in IF mode = "pair" THEN PairUps ELSE OptBnds :
       /\ insts' = [insts EXCEPT ![i] = SampleDistCall(samples, lo, up)]
       /\ args' = [args EXCEPT ![i] = <<samples, lo, up>>]
  /\ UNCHANGED <<ret, mode>>

\* A cumulative query that caches the shifted mass on the instance.
CdfCaching(i) ==
  /\ Idle
  /\ IsKde(i)
  /\ \E x \in XArrays :
       LET self == insts[i]
       IN  /\ ret' = [op |-> "_cdf", inst |-> i, x |-> x,
                      lo |-> self.prm.lo, up |-> self.prm.up,
                      val |-> _cdf(self, x, self.prm.lo, self.prm.up)]
           /\ insts' = [insts EXCEPT ![i].fup = self.fup - self.flo, ![i].flo = 0]
  /\ UNCHANGED <<args, mode>>

\* dist_i.fwd(x): the framework calls _cdf(x, **prm)
Cdf(i) ==
  /\ Idle
  /\ IsKde(i)
  /\ \E x \in XArrays :
       LET self == insts[i]
       IN  ret' = [op |-> "_cdf", inst |-> i, x |-> x,
                   lo |-> self.prm.lo, up |-> self.prm.up,
                   val |-> _cdf(self, x, self.prm.lo, self.prm.up)]
  /\ UNCHANGED <<insts, args, mode>>

\* dist_i.pdf(x): the framework calls _pdf(x, **prm)
Pdf(i) ==
  /\ Idle
  /\ IsKde(i)
  /\ \E x \in XArrays :
       LET self == insts[i]
       IN  ret' = [op |-> "_pdf", inst |-> i, x |-> x,
                   lo |-> self.prm.lo, up |-> self.prm.up,
                   val |-> _pdf(self, x, self.prm.lo, self.prm.up)]
  /\ UNCHANGED <<insts, args, mode>>

\* dist_i._bnd(x, lo, up)
Bnd(i) ==
  /\ Idle
  /\ IsKde(i)
  /\ \E x \in XVals, a \in BndArgs(insts[i]) :
       ret' = [op |-> "_bnd", inst |-> i, x |-> Grid(x, x),
               lo |-> a[1], up |-> a[2],
               val |-> _bnd(insts[i], Grid(x, x), a[1], a[2])]
  /\ UNCHANGED <<insts, args, mode>>

\* The probabilities inverted, as fractions.
QVals == {<<1, 4>>, <<1, 2>>, <<3, 4>>}

\* The framework's inversion: it brackets q between the declared bounds and
\* halves the bracket [a, b] on the sign of cumulative(mid) - q until the
\* bracket is one grid step wide, and returns its lower end.
RECURSIVE Bisect(_, _, _, _)
Bisect(self, q, a, b) ==
  IF b - a <= 1 THEN a
  ELSE LET mid == (a + b) \div 2
           at == _cdf(self, Grid(mid, mid), self.prm.lo, self.prm.up)[1][1]
       IN  IF FLe(at, q) THEN Bisect(self, q, mid, b) ELSE Bisect(self, q, a, mid)

\* dist_i.inv(q), then dist_i.fwd of the result
Inv(i) ==
  /\ Idle
  /\ IsKde(i)
  /\ \E q \in QVals :
       LET self == insts[i]
           bnd == _bnd(self, Grid(Anchor, Anchor), self.prm.lo, self.prm.up)
           x == Bisect(self, q, bnd[1], bnd[2])
       IN  ret' = [op |-> "inv", inst |-> i, q |-> q, x |-> Grid(x, x),
                   lo |-> self.prm.lo, up |-> self.prm.up,
                   val |-> _cdf(self, Grid(x, x), self.prm.lo, self.prm.up)]
  /\ UNCHANGED <<insts, args, mode>>

\* The caller takes the result; the instance is ready for the next query.
Return ==
  /\ ~Idle
  /\ ret' = NoRet
  /\ UNCHANGED <<insts, args, mode>>

Next ==
  \/ \E i \in Insts : SampleDist(i)
  \/ \E i \in Insts : Cdf(i)
  \/ \E i \in Insts : Pdf(i)
  \/ \E i \in Insts : Bnd(i)
  \/ \E i \in Insts : Inv(i)
  \/ Return

Spec == Init /\ [][Next]_vars

SpecPair == InitPair /\ [][Next]_vars

---------------------------------------------------------------------------
(* Properties *)

\* The instance the last query was made on.
Self == insts[ret.inst]

\* The points of the last query's single row.
Pts == 1..Len(ret.x[1])

Degenerate(samples) == Cardinality(Range(samples)) < 2

\* C1 as stated: on every KDE-backed distribution, whatever its bounds, the
\* cumulative is 0 at exactly lower and 1 at exactly upper.
C1_Original ==
  ret.op = "_cdf" =>
    \A j \in Pts :
      /\ ret.x[1][j] = Self.prm.lo => ret.val[1][j] = FZero
      /\ ret.x[1][j] = Self.prm.up => ret.val[1][j] = FOne

\* C1, amended: on every KDE-backed distribution whose cached masses differ
\* (cdfUpper # cdfLower), the cumulative is exactly 0 at lower and exactly 1
\* at upper.
C1_CdfAtBounds ==
  (ret.op = "_cdf" /\ Self.fup # Self.flo) =>
    \A j \in Pts :
      /\ ret.x[1][j] = Self.prm.lo => ret.val[1][j] = FZero
      /\ ret.x[1][j] = Self.prm.up => ret.val[1][j] = FOne

C1_Witness ==
  /\ ret.op = "_cdf"
  /\ Self.fup # Self.flo
  /\ Self.flo # 0
  /\ \E j, k \in Pts :
       /\ ret.x[1][j] = Self.prm.lo /\ ret.val[1][j] = FZero
       /\ ret.x[1][k] = Self.prm.up /\ ret.val[1][k] = FOne

Constructed(i) ==
  << IF args[i][2] = None THEN SeqMin(args[i][1]) ELSE args[i][2][1],
     IF args[i][3] = None THEN SeqMax(args[i][1]) ELSE args[i][3][1] >>

\* C3 as stated: the bounds query returns the pair fixed at construction
\* whatever lo/up arguments it is invoked with.
C3_Original == ret.op = "_bnd" => ret.val = Constructed(ret.inst)

\* C3, amended: the bounds query returns exactly the lo/up pair it is
\* invoked with, whatever x; invoked with the recorded parameters, as the
\* framework does, that is the pair fixed at construction.
C3_BoundsPassThrough ==
  ret.op = "_bnd" =>
    /\ ret.val = <<ret.lo, ret.up>>
    /\ <<ret.lo, ret.up>> = <<Self.prm.lo, Self.prm.up>> =>
         ret.val = Constructed(ret.inst)

C3_Witness ==
  /\ ret.op = "_bnd"
  /\ <<ret.lo, ret.up>> = <<Self.prm.lo, Self.prm.up>>
  /\ ret.val = Constructed(ret.inst)
  /\ ret.val[1] # ret.val[2]
  /\ ret.x[1][1] > ret.val[2]

\* C4: an omitted lo is the sample minimum and an omitted up the sample
\* maximum; a supplied bound, 0 included, is kept unchanged; each bound is
\* defaulted on its own.
C4_DefaultBounds ==
  \A i \in Insts :
    IsKde(i) =>
      /\ args[i][2] = None => insts[i].prm.lo = SeqMin(args[i][1])
      /\ args[i][2] # None => insts[i].prm.lo = args[i][2][1]
      /\ args[i][3] = None => insts[i].prm.up = SeqMax(args[i][1])
      /\ args[i][3] # None => insts[i].prm.up = args[i][3][1]

C4_Witness ==
  /\ IsKde(1)
  /\ args[1][2] = Some(0)
  /\ args[1][3] = None
  /\ SeqMin(args[1][1]) > 0
  /\ insts[1].prm.lo = 0
  /\ insts[1].prm.up = SeqMax(args[1][1])

\* C5 as stated: on every KDE-backed distribution, query points x1 <= x2
\* within [lower, upper] have cumulative(x1) <= cumulative(x2).
C5_Original ==
  ret.op = "_cdf" =>
    \A j, k \in Pts :
      (Self.prm.lo <= ret.x[1][j] /\ ret.x[1][j] <= ret.x[1][k]
         /\ ret.x[1][k] <= Self.prm.up) =>
        FLe(ret.val[1][j], ret.val[1][k])

\* C5, amended: on every KDE-backed distribution whose cached masses differ
\* (cdfUpper # cdfLower), query points x1 <= x2 within [lower, upper] have
\* cumulative(x1) <= cumulative(x2).
C5_Monotone ==
  (ret.op = "_cdf" /\ Self.fup # Self.flo) =>
    \A j, k \in Pts :
      (Self.prm.lo <= ret.x[1][j] /\ ret.x[1][j] <= ret.x[1][k]
         /\ ret.x[1][k] <= Self.prm.up) =>
        FLe(ret.val[1][j], ret.val[1][k])

C5_Witness ==
  /\ ret.op = "_cdf"
  /\ Self.fup # Self.flo
  /\ \E j, k \in Pts :
       /\ Self.prm.lo < ret.x[1][j] /\ ret.x[1][j] < ret.x[1][k]
       /\ ret.x[1][k] < Self.prm.up
       /\ FLe(ret.val[1][j], ret.val[1][k])
       /\ ret.val[1][j] # ret.val[1][k]

InUnit(v) == FLe(FZero, v) /\ FLe(v, FOne)

\* C8 as stated: cdf returns an array shaped like x; every entry whose point
\* lies in [lower, upper] is in [0, 1]; every entry is the affine rescaling
\* (raw - cdfLower) / (cdfUpper - cdfLower), unclamped.
C8_Original ==
  ret.op = "_cdf" =>
    /\ Len(ret.val) = Len(ret.x)
    /\ \A i \in 1..Len(ret.x) : Len(ret.val[i]) = Len(ret.x[i])
    /\ \A j \in Pts :
         /\ ret.val[1][j] =
              FDiv(integrate_box_1d(Self.kernel, Anchor, ret.x[1][j]) - Self.flo,
                   Self.fup - Self.flo)
         /\ (Self.prm.lo <= ret.x[1][j] /\ ret.x[1][j] <= Self.prm.up) =>
              InUnit(ret.val[1][j])

\* C8, amended: cdf returns an array shaped like x, every entry the affine
\* rescaling (raw - cdfLower) / (cdfUpper - cdfLower) with no clamping and no
\* rejection; when cdfUpper # cdfLower, every entry whose point lies in
\* [lower, upper] is in [0, 1].
C8_CdfRange ==
  ret.op = "_cdf" =>
    /\ Len(ret.val) = Len(ret.x)
    /\ \A i \in 1..Len(ret.x) : Len(ret.val[i]) = Len(ret.x[i])
    /\ \A j \in Pts :
         /\ ret.val[1][j] =
              FDiv(integrate_box_1d(Self.kernel, Anchor, ret.x[1][j]) - Self.flo,
                   Self.fup - Self.flo)
         /\ (Self.fup # Self.flo /\ Self.prm.lo <= ret.x[1][j]
               /\ ret.x[1][j] <= Self.prm.up) =>
              InUnit(ret.val[1][j])

C8_Witness ==
  /\ ret.op = "_cdf"
  /\ Self.fup # Self.flo
  /\ Len(ret.x[1]) >= 3
  /\ \E j, k, l \in Pts :
       /\ ret.x[1][j] < Self.prm.lo /\ ~FLe(FZero, ret.val[1][j])
       /\ Self.prm.lo < ret.x[1][k] /\ ret.x[1][k] < Self.prm.up
       /\ InUnit(ret.val[1][k])
       /\ Self.prm.up < ret.x[1][l] /\ ~FLe(ret.val[1][l], FOne)

\* C10 as stated: on every KDE-backed distribution, cdfUpper - cdfLower is
\* strictly positive, whatever lo/up were supplied.
C10_Original ==
  \A i \in Insts : IsKde(i) => insts[i].fup - insts[i].flo > 0

\* C10, amended: cdfUpper - cdfLower is strictly positive whenever
\* lower <= min(samples) and max(samples) <= upper, as with defaulted bounds;
\* for other supplied bounds it has the sign of upper - lower or is zero,
\* and it is zero when lower = upper.
C10_MassSign ==
  \A i \in Insts :
    IsKde(i) =>
      LET d == insts[i].fup - insts[i].flo
          lo == insts[i].prm.lo
          up == insts[i].prm.up
      IN  /\ (lo <= SeqMin(args[i][1]) /\ SeqMax(args[i][1]) <= up) => d > 0
          /\ lo <= up => d >= 0
          /\ lo >= up => d <= 0

C10_Witness ==
  /\ IsKde(1)
  /\ args[1][2] = None
  /\ args[1][3] = None
  /\ insts[1].fup - insts[1].flo > 0
  /\ insts[1].flo # 0

\* What instance i was when SampleDist returned it.
AsBuilt(i) == SampleDistCall(args[i][1], args[i][2], args[i][3])

\* The result the stored query has on an instance.
Answer(self, r) ==
  IF r.op = "_cdf" THEN _cdf(self, r.x, r.lo, r.up)
  ELSE IF r.op = "_pdf" THEN _pdf(self, r.x, r.lo, r.up)
  ELSE _bnd(self, r.x, r.lo, r.up)

\* Every query answers as it would on the freshly built instance.
C6_SameAnswer ==
  ret.op \in {"_cdf", "_pdf", "_bnd"} => ret.val = Answer(AsBuilt(ret.inst), ret)

\* A step changes an instance only by constructing it, and leaves the
\* other instance alone.
C6_Frame ==
  \A i \in Insts :
    insts'[i] # insts[i] =>
      /\ insts[i].kind = "unbound"
      /\ ret = NoRet /\ ret' = NoRet
      /\ \A j \in Insts \ {i} : insts'[j] = insts[j]

\* C6: no cdf, pdf or bounds query changes the kernel, the samples, cdfLower
\* or cdfUpper of its instance or of any other instance, so a query yields
\* the same result whatever queries came before it.
C6_QueriesAreReadOnly == [][C6_Frame]_vars /\ [](C6_SameAnswer)

C6_Witness ==
  /\ IsKde(1)
  /\ IsKde(2)
  /\ insts[1] # insts[2]
  /\ ret.op = "_cdf"
  /\ ret.inst = 2
  /\ ret.val = Answer(AsBuilt(2), ret)

\* Two KDE-backed instances built from the same samples.
Twins == IsKde(1) /\ IsKde(2) /\ args[1][1] = args[2][1]

CdfAt(self, x) == _cdf(self, Grid(x, x), self.prm.lo, self.prm.up)[1][1]

\* pdf is the kernel density of the samples alone: the same on two
\* instances built from the same samples, whatever their bounds.
C9_PdfIgnoresBounds ==
  /\ ret.op = "_pdf" =>
       ret.val = [j \in Pts |-> evaluate(gaussian_kde(args[ret.inst][1]), ret.x[1][j])]
  /\ Twins =>
       \A x \in XVals :
         _pdf(insts[1], Grid(x, x), insts[1].prm.lo, insts[1].prm.up)
           = _pdf(insts[2], Grid(x, x), insts[2].prm.lo, insts[2].prm.up)

\* C9 as stated: two instances built from the same samples with different
\* bounds return the same pdf at every x while their cdf values differ.
C9_Original ==
  /\ C9_PdfIgnoresBounds
  /\ (Twins /\ insts[1].prm # insts[2].prm) =>
       \E x \in XVals : CdfAt(insts[1], x) # CdfAt(insts[2], x)

\* C9, amended: pdf is the kernel's density with no truncation rescaling, so
\* two instances built from the same samples return the same pdf at every x
\* whatever their bounds; their cdf values differ at some x whenever their
\* cached (cdfLower, cdfUpper) pairs differ and at least one of the two has
\* cdfUpper # cdfLower.
C9_PdfSameCdfDiffers ==
  /\ C9_PdfIgnoresBounds
  /\ (/\ Twins
      /\ <<insts[1].flo, insts[1].fup>> # <<insts[2].flo, insts[2].fup>>
      /\ insts[1].fup # insts[1].flo \/ insts[2].fup # insts[2].flo) =>
       \E x \in XVals : CdfAt(insts[1], x) # CdfAt(insts[2], x)

C9_Witness ==
  /\ Twins
  /\ insts[1].prm # insts[2].prm
  /\ ret.op = "_pdf"
  /\ ret.inst = 2
  /\ ret.val = _pdf(insts[1], ret.x, insts[1].prm.lo, insts[1].prm.up)
  /\ \E x \in XVals : CdfAt(insts[1], x) # CdfAt(insts[2], x)

\* q lies between the cumulative at x and at the next grid point.
Brackets(self, x, q) == FLe(CdfAt(self, x), q) /\ FLe(q, CdfAt(self, x + 1))

====
